---- MODULE Spec2Model ----
(***************************************************************************)
(* Model of the logo-manager tools of gsoc-orgs:                           *)
(*   download_and_upload_logos.py  (download + publish to R2 + record)     *)
(*   download_logos.py             (download only)                         *)
(* The MongoDB collection, the ./logos directory and the R2 bucket are the *)
(* state; one run of a tool is a sequence of steps over the selected       *)
(* documents.  Strings are sequences of one-character strings, so that the *)
(* URL parsing and the key derivation are computed, character by           *)
(* character, as the code computes them.                                   *)
(***************************************************************************)
EXTENDS Integers, Sequences, FiniteSets, TLC

\* ------------------------------------------------------------------ bounds
NumOrgs == 2        \* documents in the organizations collection
MaxRuns == 2        \* tool invocations in one behaviour
MaxTail == 5        \* characters after "http://x" in the URLs of SpecKey

\* ------------------------------------------------------------------ values
\* A BSON / Python value: a missing field, null (None), a string, or a
\* truthy non-string (a number).
Absent == [kind |-> "absent", val |-> <<>>]
None == [kind |-> "null", val |-> <<>>]
Str(s) == [kind |-> "str", val |-> s]
Num == [kind |-> "num", val |-> <<"5">>]
PyTrue == [kind |-> "bool", val |-> <<"T">>]
PyFalse == [kind |-> "bool", val |-> <<"F">>]

\* org_doc.get(f): a missing key reads as None
Get(doc, f) == IF doc[f].kind = "absent" THEN None ELSE doc[f]

\* Python truthiness of the values above
Truthy(v) ==
    CASE v.kind = "null" -> FALSE
      [] v.kind = "absent" -> FALSE
      [] v.kind = "str" -> v.val # <<>>
      [] v.kind = "bool" -> v = PyTrue
      [] OTHER -> TRUE

\* Python's  a or b
PyOr(a, b) == IF Truthy(a) THEN a ELSE b

\* --------------------------------------------------------- string helpers
\* s.find(c, from): least index >= from holding c, 0 when there is none
\* (indices are 1-based here; Python's -1 is 0)
Find(s, c, from) ==
    LET hits == {i \in from..Len(s) : s[i] = c}
    IN  IF hits = {} THEN 0 ELSE CHOOSE i \in hits : \A j \in hits : i <= j

\* s.rfind(c)
RFind(s, c) ==
    LET hits == {i \in 1..Len(s) : s[i] = c}
    IN  IF hits = {} THEN 0 ELSE CHOOSE i \in hits : \A j \in hits : i >= j

\* s[i:] and s[:i], with i the 1-based index of the first kept / first dropped
From(s, i) == SubSeq(s, i, Len(s))
Upto(s, i) == SubSeq(s, 1, i - 1)

\* str.lower() over the characters the model uses
LowerChar(c) ==
    CASE c = "P" -> "p"
      [] c = "N" -> "n"
      [] c = "G" -> "g"
      [] OTHER -> c

lower(s) == [i \in 1..Len(s) |-> LowerChar(s[i])]

\* needle in hay  (Python substring test)
Contains(hay, needle) ==
    \E i \in 1..(Len(hay) - Len(needle) + 1) :
        SubSeq(hay, i, i + Len(needle) - 1) = needle

\* str(x) of a Python bool
PyStr(v) == IF v = PyTrue THEN <<"T", "r", "u", "e">> ELSE <<"F", "a", "l", "s", "e">>

\* ------------------------------------------------------------ urlparse
SchemeChars == {"h", "t", "p", "s", "f", "a", "x", "l", "m", "P", "N", "G", "n", "g", "+", "-"}
\* the members of urllib.parse.uses_params that the model's URLs can spell
uses_params == {<<>>, <<"h", "t", "t", "p">>, <<"h", "t", "t", "p", "s">>, <<"f", "t", "p">>}

\* urlsplit, step 1: a leading  scheme:
SplitScheme(url) ==
    LET i == Find(url, ":", 1)
    IN  IF i > 1 /\ \A k \in 1..(i - 1) : url[k] \in SchemeChars
        THEN [scheme |-> lower(Upto(url, i)), rest |-> From(url, i + 1)]
        ELSE [scheme |-> <<>>, rest |-> url]

\* urlsplit, step 2: //netloc up to the first of / ? #
SplitNetloc(url) ==
    IF Len(url) >= 2 /\ url[1] = "/" /\ url[2] = "/"
    THEN LET ds == {i \in 3..Len(url) : url[i] \in {"/", "?", "#"}}
             delim == IF ds = {} THEN Len(url) + 1
                      ELSE CHOOSE i \in ds : \A j \in ds : i <= j
         IN  From(url, delim)
    ELSE url

\* url.split(c, 1)[0]
Before(url, c) ==
    LET i == Find(url, c, 1) IN IF i = 0 THEN url ELSE Upto(url, i)

\* urllib.parse._splitparams, the path half
SplitParams(url) ==
    LET slash == RFind(url, "/")
        i == IF slash > 0 THEN Find(url, ";", slash) ELSE Find(url, ";", 1)
    IN  IF i = 0 THEN url ELSE Upto(url, i)

\* urlparse(url).path
urlparse_path(url) ==
    LET s == SplitScheme(url)
        p == Before(Before(SplitNetloc(s.rest), "#"), "?")
    IN  IF s.scheme \in uses_params /\ Find(p, ";", 1) > 0 THEN SplitParams(p) ELSE p

\* ------------------------------------------------------- pathlib.Path
\* PurePosixPath(p).name: the last component, "" and "." components dropped
RECURSIVE PathName(_)
PathName(p) ==
    IF p = <<>> THEN <<>>
    ELSE LET slash == RFind(p, "/")
             last == From(p, slash + 1)
         IN  IF last = <<>> \/ last = <<".">>
             THEN IF slash = 0 THEN <<>> ELSE PathName(Upto(p, slash))
             ELSE last

\* PurePath.suffix
PathSuffix(p) ==
    LET name == PathName(p)
        i == RFind(name, ".")
    IN  IF 1 < i /\ i < Len(name) THEN From(name, i) ELSE <<>>

DotPng == <<".", "p", "n", "g">>

\* download_and_upload_logos.generate_r2_key
generate_r2_key_lowerless(image_slug, logo_url) ==
    LET ext == PathSuffix(urlparse_path(logo_url))
    IN  image_slug \o (IF ext = <<>> THEN DotPng ELSE ext)

generate_r2_key(image_slug, logo_url) ==
    LET ext == lower(PathSuffix(urlparse_path(logo_url)))
    IN  image_slug \o (IF ext = <<>> THEN DotPng ELSE ext)

\* download_logos.get_extension_from_url
get_extension_from_url(url) ==
    LET ext == lower(PathSuffix(urlparse_path(url)))
    IN  IF ext = <<>> THEN DotPng ELSE ext

\* download_and_upload_logos.get_content_type
get_content_type(url) ==
    LET ext == lower(PathSuffix(urlparse_path(url)))
    IN  CASE ext = <<".", "p", "n", "g">> -> "image/png"
          [] ext = <<".", "j", "p", "g">> -> "image/jpeg"
          [] ext = <<".", "j", "p", "e", "g">> -> "image/jpeg"
          [] ext = <<".", "g", "i", "f">> -> "image/gif"
          [] ext = <<".", "s", "v", "g">> -> "image/svg+xml"
          [] ext = <<".", "w", "e", "b", "p">> -> "image/webp"
          [] OTHER -> "image/png"

\* ------------------------------------------------------------ documents
Http == <<"h", "t", "t", "p", ":", "/", "/", "x">>
UrlUpper == Http \o <<"/", "l", ".", "P">>      \* extension in upper case
UrlBare == Http \o <<"/", "m">>                  \* no extension
UrlLower == Http \o <<"/", "k", ".", "p">>      \* another file, same extension
SlugX == Str(<<"x">>)
SlugY == Str(<<"y">>)

\* R2_PUBLIC_URL, rstrip("/") applied; R2_ACCOUNT_ID and R2_BUCKET
R2_PUBLIC_URL == <<"c", "d", "n">>
R2_ENDPOINT_BUCKET == <<"r", "2", "/", "b">>

\* lines 198-202: the public URL of a key
public_url_empty(r2_key) == <<>>

public_url_of(r2_key) ==
    IF R2_PUBLIC_URL # <<>>
    THEN R2_PUBLIC_URL \o <<"/">> \o r2_key
    ELSE R2_ENDPOINT_BUCKET \o <<"/">> \o r2_key

Cid(i) == Str(<<ToString(i)>>)

Doc(sl, isl, iu, lu, r2) ==
    [slug |-> sl, image_slug |-> isl, image_url |-> iu, logoUrl |-> lu,
     logo_r2_url |-> r2, logo_local_filename |-> Absent, logo_uploaded_at |-> Absent]

\* The shapes of document the collection holds before a run: complete,
\* legacy (logoUrl only, empty logo_r2_url), null image_slug, null image_url,
\* a non-string image_url, already published, and one with nothing usable.
Catalogue ==
    << Doc(SlugX, Str(<<"a">>), Str(UrlUpper), Absent, Absent),
      Doc(SlugY, Str(<<"a">>), Absent, Str(UrlBare), Str(<<>>)),
      Doc(SlugX, None, Str(UrlUpper), Absent, None),
      Doc(SlugY, Str(<<"b">>), None, Absent, Absent),
      Doc(SlugX, Str(<<"b">>), Num, Absent, Absent),
      Doc(SlugY, Str(<<"a">>), Str(UrlLower), Absent,
          Str(public_url_of(<<"a", ".", "p">>))),
      Doc(SlugX, Absent, Str(<<>>), Absent, Absent) >>

\* the collections of NumOrgs documents: shapes taken in catalogue order
Picks ==
    {f \in [1..NumOrgs -> 1..Len(Catalogue)] : \A i, j \in 1..NumOrgs : i < j => f[i] < f[j]}

WithId(d, i) ==
    [canonical_id |-> Cid(i), slug |-> d.slug, image_slug |-> d.image_slug,
     image_url |-> d.image_url, logoUrl |-> d.logoUrl, logo_r2_url |-> d.logo_r2_url,
     logo_local_filename |-> d.logo_local_filename,
     logo_uploaded_at |-> d.logo_uploaded_at]

\* -------------------------------------------------------- MongoDB queries
\* A Python dict literal given as its key/value pairs in source order: a
\* repeated key keeps the value written last.
DictLiteral(pairs) ==
    [k \in {pairs[i][1] : i \in 1..Len(pairs)} |->
        LET last == CHOOSE i \in 1..Len(pairs) :
                        /\ pairs[i][1] = k
                        /\ \A j \in 1..Len(pairs) : pairs[j][1] = k => j <= i
        IN  pairs[last][2]]

\* {field: value}: null matches a null or a missing field
MongoEq(v, q) == IF q = None THEN v.kind \in {"absent", "null"} ELSE v = q

\* {field: {op: arg, ...}}
MongoOps(v, d) ==
    \A op \in DOMAIN d :
        CASE op = "$exists" -> (v.kind # "absent") = Truthy(d[op])
          [] op = "$ne" -> ~MongoEq(v, d[op])
          [] OTHER -> FALSE

\* {"$exists": True, "$ne": None, "$ne": ""}   (lines 269, 270, 273)
NonEmptyCond ==
    DictLiteral(<< <<"$exists", PyTrue>>, <<"$ne", None>>, <<"$ne", Str(<<>>)>> >>)

\* {"logo_r2_url": {"$exists": False}}, {"logo_r2_url": None}, {"logo_r2_url": ""}
NoR2Url(doc) ==
    \/ MongoOps(doc.logo_r2_url, DictLiteral(<< <<"$exists", PyFalse>> >>))
    \/ MongoEq(doc.logo_r2_url, None)
    \/ MongoEq(doc.logo_r2_url, Str(<<>>))

HasSource(doc) ==
    \/ MongoOps(doc.image_url, NonEmptyCond)
    \/ MongoOps(doc.logoUrl, NonEmptyCond)

\* download_and_upload_logos.run, lines 258-275
DefaultQuery(doc) ==
    NoR2Url(doc) /\ HasSource(doc) /\ MongoOps(doc.image_slug, NonEmptyCond)

\* download_logos.run, lines 147-157
DlDefaultQuery(doc) == HasSource(doc) /\ MongoOps(doc.image_slug, NonEmptyCond)

\* find(query): the matching documents in natural order
RECURSIVE Filter(_, _)
Filter(docs, keep) ==
    IF docs = <<>> THEN <<>>
    ELSE (IF Head(docs).canonical_id \in keep THEN <<Head(docs)>> ELSE <<>>)
         \o Filter(Tail(docs), keep)

\* the rank of a canonical_id in the sort order
CidNum(doc) == CHOOSE i \in 1..NumOrgs : doc.canonical_id = Cid(i)

\* find({"slug": s}).sort("canonical_id", -1).limit(1)
FindLatest(docs, s) ==
    LET m == {i \in 1..Len(docs) : MongoEq(docs[i].slug, s)}
    IN  IF m = {} THEN <<>>
        ELSE <<docs[CHOOSE i \in m : \A j \in m : CidNum(docs[j]) <= CidNum(docs[i])]>>

\* find({"slug": {"$in": org_slugs}})
FindIn(docs, slugs) ==
    Filter(docs, {docs[i].canonical_id : i \in {j \in 1..Len(docs) : docs[j].slug \in slugs}})

\* the three branches of "Build query", lines 247-277
Select(docs, t_org, slugs) ==
    IF Truthy(t_org) THEN FindLatest(docs, t_org)
    ELSE IF slugs # {} THEN FindIn(docs, slugs)
    ELSE Filter(docs, {docs[i].canonical_id : i \in {j \in 1..Len(docs) : DefaultQuery(docs[j])}})

\* download_logos: the three branches of "Build query", lines 137-159
DlSelect(docs, t_org, slugs) ==
    IF Truthy(t_org) THEN FindLatest(docs, t_org)
    ELSE IF slugs # {} THEN FindIn(docs, slugs)
    ELSE Filter(docs, {docs[i].canonical_id : i \in {j \in 1..Len(docs) : DlDefaultQuery(docs[j])}})

\* ------------------------------------------------------------------ state
VARIABLES
    DRY_RUN,        \* the DRY_RUN option of the environment (line 47)
    db,             \* db.organizations: the documents in natural order
    logos,          \* LOGOS_DIR: file name -> content
    bucket,         \* the R2 bucket: key -> object
    tool,           \* "none", "publish" (download_and_upload_logos) or "download"
    args,           \* how the running tool was started
    mode,           \* "single", "list" or "default": the branch of "Build query"
    dry_run,        \* run's dry_run after line 231-232
    force,          \* download_logos: --force
    pc,             \* "idle", "check", "download", "upload", "update", "done"
    orgs,           \* list(find(...)): the selected documents, as read
    idx,            \* enumerate(orgs, 1)
    success_count, skip_count, fail_count,
    trace,          \* the run's console log, one entry per step
    tally,          \* which counter each processed record went to
    runs,           \* how many runs have been started
    prev,           \* what the log of the run before this one says of it, when
                    \* that was a default-mode publish run without dry-run
    kin, kout       \* SpecKey: the arguments and results of the key derivation

vars == <<DRY_RUN, db, logos, bucket, tool, args, mode, dry_run, force, pc, orgs, idx,
          success_count, skip_count, fail_count, trace, tally, runs, prev, kin, kout>>

runVars == <<tool, args, mode, dry_run, force, orgs, runs, prev>>
keyVars == <<kin, kout>>
counters == <<success_count, skip_count, fail_count, tally, idx>>

Raised == [kind |-> "exc", val |-> <<>>]

Put(f, k, v) == [x \in (DOMAIN f) \cup {k} |-> IF x = k THEN v ELSE f[x]]

Log(i, ev) == Append(trace, [i |-> i, ev |-> ev])

Cur == orgs[idx]

\* logo_url = image_url or org_doc.get("logoUrl")
logo_url_of(org) == PyOr(Get(org, "image_url"), Get(org, "logoUrl"))

\* r2_key / filename of a document that passed the field checks
key_of(org) == generate_r2_key(Get(org, "image_slug").val, logo_url_of(org).val)

dl_filename_of(org) ==
    Get(org, "image_slug").val \o get_extension_from_url(logo_url_of(org).val)

NoRun ==
    [tool |-> "none", mode |-> "default", dry_run |-> FALSE, selected |-> <<>>, updated |-> {}]

Init ==
    /\ DRY_RUN \in BOOLEAN
    /\ db \in {[i \in 1..NumOrgs |-> WithId(Catalogue[f[i]], i)] : f \in Picks}
    /\ logos = <<>>
    /\ bucket = <<>>
    /\ tool = "none"
    /\ args = [entry |-> "none", test_org |-> None, org_slugs |-> {}, dry_run |-> None]
    /\ mode = "default"
    /\ dry_run = FALSE
    /\ force = FALSE
    /\ pc = "idle"
    /\ orgs = <<>>
    /\ idx = 0
    /\ success_count = 0
    /\ skip_count = 0
    /\ fail_count = 0
    /\ trace = <<>>
    /\ tally = <<>>
    /\ runs = 0
    /\ prev = NoRun
    /\ kin = [image_slug |-> <<>>, url |-> <<>>]
    /\ kout = [done |-> FALSE, r2_key |-> <<>>, filename |-> <<>>]

\* ------------------------------------------------------------ starting a run
\* what the log of the run that just ended says of it
Summary ==
    [tool |-> tool, mode |-> mode, dry_run |-> dry_run,
     selected |-> [i \in 1..Len(orgs) |-> orgs[i].canonical_id],
     updated |-> {orgs[trace[k].i].canonical_id :
                    k \in {j \in 1..Len(trace) : trace[j].ev = "db_updated"}}]

CanStart ==
    /\ pc \in {"idle", "done"}
    /\ runs < MaxRuns

ModeOf(t_org, slugs) ==
    IF Truthy(t_org) THEN "single" ELSE IF slugs # {} THEN "list" ELSE "default"

\* the head of run(): lines 229-286 (publish) and 126-169 (download only)
StartRun(tl, entry, t_org, slugs, dry_arg, frc, selected) ==
    /\ runs' = runs + 1
    /\ prev' = IF tool = "publish" /\ mode = "default" /\ ~dry_run THEN Summary ELSE NoRun
    /\ tool' = tl
    /\ args' = [entry |-> entry, test_org |-> t_org, org_slugs |-> slugs, dry_run |-> dry_arg]
    /\ mode' = ModeOf(t_org, slugs)
    /\ dry_run' = IF dry_arg = None THEN DRY_RUN ELSE Truthy(dry_arg)
    /\ force' = frc
    /\ orgs' = selected
    /\ pc' = IF selected = <<>> THEN "done" ELSE "check"
    /\ idx' = IF selected = <<>> THEN 0 ELSE 1
    /\ success_count' = 0
    /\ skip_count' = 0
    /\ fail_count' = 0
    /\ trace' = <<>>
    /\ tally' = <<>>
    /\ UNCHANGED <<DRY_RUN, db, logos, bucket, keyVars>>

\* the command lines tried: no selection flag, --test-org x, --orgs x y
Selections ==
    { [test_org |-> None, org_slugs |-> {}],
      [test_org |-> SlugX, org_slugs |-> {}],
      [test_org |-> None, org_slugs |-> {SlugX, SlugY}] }

\* download_and_upload_logos.py, __main__: parse_args, then run(...)
Main ==
    /\ CanStart
    /\ \E a \in Selections, d \in {PyTrue, PyFalse} :
           StartRun("publish", "cli", a.test_org, a.org_slugs, d, FALSE,
                    Select(db, a.test_org, a.org_slugs))

\* run() called with its defaults (dry_run=None)
CallRun ==
    /\ CanStart
    /\ StartRun("publish", "call", None, {}, None, FALSE, Select(db, None, {}))

\* download_logos.py, __main__
DlMain ==
    /\ CanStart
    /\ \E a \in Selections, f \in BOOLEAN :
           StartRun("download", "cli", a.test_org, a.org_slugs, PyFalse, f,
                    DlSelect(db, a.test_org, a.org_slugs))

\* ------------------------------------------- download_and_upload_logos.py
\* run, lines 291-302: count the record's result and move to the next one
LoopTail_uncaught(result) ==
    IF result = Raised
    THEN /\ pc' = "done"
         /\ UNCHANGED counters
    ELSE /\ success_count' = IF Truthy(result) THEN success_count + 1 ELSE success_count
         /\ fail_count' = IF Truthy(result) THEN fail_count ELSE fail_count + 1
         /\ tally' = Append(tally, IF Truthy(result) THEN "success" ELSE "fail")
         /\ idx' = idx + 1
         /\ pc' = IF idx < Len(orgs) THEN "check" ELSE "done"
         /\ UNCHANGED skip_count

LoopTail(result) ==
    /\ success_count' =
           IF result # Raised /\ Truthy(result) THEN success_count + 1 ELSE success_count
    /\ fail_count' =
           IF result # Raised /\ Truthy(result) THEN fail_count ELSE fail_count + 1
    /\ tally' = Append(tally, IF result # Raised /\ Truthy(result) THEN "success" ELSE "fail")
    /\ idx' = idx + 1
    /\ pc' = IF idx < Len(orgs) THEN "check" ELSE "done"
    /\ UNCHANGED skip_count

\* process_organization, lines 149-172: the required fields and the key
Check ==
    /\ tool = "publish" /\ pc = "check"
    /\ LET logo_url == logo_url_of(Cur)
           image_slug == Get(Cur, "image_slug")
       IN  IF ~Truthy(logo_url)
           THEN trace' = Log(idx, "skip_no_url") /\ LoopTail(PyFalse)
           ELSE IF ~Truthy(image_slug)
           THEN trace' = Log(idx, "skip_no_slug") /\ LoopTail(PyFalse)
           ELSE IF logo_url.kind # "str"
           THEN \* urlparse raises on a value that is no string
                trace' = Log(idx, "unexpected_error") /\ LoopTail(Raised)
           ELSE /\ trace' = Log(idx, "processing")
                /\ pc' = "download"
                /\ UNCHANGED counters
    /\ UNCHANGED <<DRY_RUN, db, logos, bucket, runVars, keyVars>>

\* download_logo (lines 94-107) as process_organization calls it, and the
\* dry-run stop after it (lines 174-189).  The request fails before the file
\* is opened ("error"), while it is written ("partial"), or not at all.
DownloadGen(honour_dry_run, stop_on_failure) ==
    /\ tool = "publish" /\ pc = "download"
    /\ LET url == logo_url_of(Cur).val
           r2_key == key_of(Cur)
       IN  \E out \in {"ok", "partial", "error"} :
             /\ logos' = CASE out = "ok" -> Put(logos, r2_key, [src |-> url, whole |-> TRUE])
                           [] out = "partial" -> Put(logos, r2_key, [src |-> url, whole |-> FALSE])
                           [] OTHER -> logos
             /\ IF out # "ok" /\ stop_on_failure
                THEN trace' = Log(idx, "download_failed") /\ LoopTail(PyFalse)
                ELSE IF dry_run /\ honour_dry_run
                THEN /\ trace' = trace \o << [i |-> idx, ev |-> "downloaded"],
                                            [i |-> idx, ev |-> "dry_run"] >>
                     /\ LoopTail(PyTrue)
                ELSE /\ trace' = Log(idx, IF out = "ok" THEN "downloaded" ELSE "download_failed")
                     /\ pc' = "upload"
                     /\ UNCHANGED counters
    /\ UNCHANGED <<DRY_RUN, db, bucket, runVars, keyVars>>

Download_no_dry_run == DownloadGen(FALSE, TRUE)

Download_ignore_failure == DownloadGen(TRUE, FALSE)

Download == DownloadGen(TRUE, TRUE)

\* upload_to_r2 (lines 109-122) as called at lines 191-196
Upload ==
    /\ tool = "publish" /\ pc = "upload"
    /\ LET r2_key == key_of(Cur)
           content_type == get_content_type(logo_url_of(Cur).val)
       IN  \E out \in {"ok", "error"} :
             IF out = "ok" /\ r2_key \in DOMAIN logos
             THEN /\ bucket' = Put(bucket, r2_key,
                                   [body |-> logos[r2_key], content_type |-> content_type])
                  /\ trace' = Log(idx, "uploaded")
                  /\ pc' = "update"
                  /\ UNCHANGED counters
             ELSE /\ trace' = Log(idx, "upload_failed")
                  /\ LoopTail(PyFalse)
                  /\ UNCHANGED bucket
    /\ UNCHANGED <<DRY_RUN, db, logos, runVars, keyVars>>

\* an update that sets the fields on every document of the collection
UpdateOne_unfiltered(docs, cid, r2_key, url, now) ==
    [i \in 1..Len(docs) |->
        [docs[i] EXCEPT !.logo_local_filename = Str(r2_key),
                        !.logo_r2_url = Str(url),
                        !.logo_uploaded_at = now]]

\* update_one(filter, {"$set": fields}): the first matching document
UpdateOne(docs, cid, r2_key, url, now) ==
    LET m == {i \in 1..Len(docs) : MongoEq(docs[i].canonical_id, cid)}
    IN  IF m = {} THEN docs
        ELSE LET first == CHOOSE i \in m : \A j \in m : i <= j
             IN  [docs EXCEPT ![first].logo_local_filename = Str(r2_key),
                              ![first].logo_r2_url = Str(url),
                              ![first].logo_uploaded_at = now]

Matched(docs, cid) == \E i \in 1..Len(docs) : MongoEq(docs[i].canonical_id, cid)

\* datetime.utcnow(): the runs are told apart
UtcNow == [kind |-> "date", val |-> <<ToString(runs)>>]

\* process_organization, lines 198-227: the public URL and the record update
Update ==
    /\ tool = "publish" /\ pc = "update"
    /\ LET r2_key == key_of(Cur)
           canonical_id == Get(Cur, "canonical_id")
       IN  \E out \in {"ok", "error"} :
             IF out = "ok"
             THEN /\ db' = UpdateOne(db, canonical_id, r2_key, public_url_of(r2_key), UtcNow)
                  /\ trace' = Log(idx, IF Matched(db, canonical_id)
                                       THEN "db_updated" ELSE "db_nomatch")
                  /\ LoopTail(PyTrue)
             ELSE /\ trace' = Log(idx, "db_failed")
                  /\ LoopTail(PyFalse)
                  /\ UNCHANGED db
    /\ UNCHANGED <<DRY_RUN, logos, bucket, runVars, keyVars>>

\* Another client of the database removes the document being processed
\* between the tool's find() and its update_one().
OtherClientRemoves ==
    /\ tool = "publish" /\ pc = "update"
    /\ Matched(db, Get(Cur, "canonical_id"))
    /\ db' = SelectSeq(db, LAMBDA d : d.canonical_id # Get(Cur, "canonical_id"))
    /\ UNCHANGED <<DRY_RUN, logos, bucket, runVars, keyVars, counters, pc, trace>>

\* ------------------------------------------------------- download_logos.py
\* run, lines 174-195
DlLoopTail(result) ==
    /\ IF result # Raised /\ Truthy(result)
       THEN IF Contains(PyStr(result), <<"[", "s", "k", "i", "p", "]">>)
            THEN /\ skip_count' = skip_count + 1
                 /\ tally' = Append(tally, "skip")
                 /\ UNCHANGED <<success_count, fail_count>>
            ELSE /\ success_count' = success_count + 1
                 /\ tally' = Append(tally, "success")
                 /\ UNCHANGED <<skip_count, fail_count>>
       ELSE /\ fail_count' = fail_count + 1
            /\ tally' = Append(tally, "fail")
            /\ UNCHANGED <<success_count, skip_count>>
    /\ idx' = idx + 1
    /\ pc' = IF idx < Len(orgs) THEN "check" ELSE "done"

\* process_organization, lines 84-114: the fields, the file name, the
\* already-exists test
DlCheck ==
    /\ tool = "download" /\ pc = "check"
    /\ LET logo_url == logo_url_of(Cur)
           image_slug == Get(Cur, "image_slug")
       IN  IF ~Truthy(logo_url)
           THEN trace' = Log(idx, "skip_no_url") /\ DlLoopTail(PyFalse)
           ELSE IF ~Truthy(image_slug)
           THEN trace' = Log(idx, "skip_no_slug") /\ DlLoopTail(PyFalse)
           ELSE IF logo_url.kind # "str"
           THEN trace' = Log(idx, "unexpected_error") /\ DlLoopTail(Raised)
           ELSE IF dl_filename_of(Cur) \in DOMAIN logos /\ ~force
           THEN trace' = Log(idx, "skip_exists") /\ DlLoopTail(PyTrue)
           ELSE /\ trace' = Log(idx, "processing")
                /\ pc' = "download"
                /\ UNCHANGED counters
    /\ UNCHANGED <<DRY_RUN, db, logos, bucket, runVars, keyVars>>

\* process_organization, lines 116-124, with download_logo (lines 60-73)
DlDownload ==
    /\ tool = "download" /\ pc = "download"
    /\ LET url == logo_url_of(Cur).val
           filename == dl_filename_of(Cur)
       IN  \E out \in {"ok", "partial", "error"} :
             /\ logos' = CASE out = "ok" -> Put(logos, filename, [src |-> url, whole |-> TRUE])
                           [] out = "partial" -> Put(logos, filename, [src |-> url, whole |-> FALSE])
                           [] OTHER -> logos
             /\ IF out = "ok"
                THEN trace' = Log(idx, "downloaded") /\ DlLoopTail(PyTrue)
                ELSE trace' = Log(idx, "download_failed") /\ DlLoopTail(PyFalse)
    /\ UNCHANGED <<DRY_RUN, db, bucket, runVars, keyVars>>

Next ==
    \/ Main
    \/ CallRun
    \/ DlMain
    \/ Check
    \/ Download
    \/ Upload
    \/ Update
    \/ OtherClientRemoves
    \/ DlCheck
    \/ DlDownload

Spec == Init /\ [][Next]_vars

\* ------------------------------------------------ the key derivation alone
Alphabet == {"/", ".", "a", "P", "?", "#", ";"}

RECURSIVE SeqsUpTo(_)
SeqsUpTo(n) ==
    IF n = 0 THEN {<<>>}
    ELSE LET shorter == SeqsUpTo(n - 1)
         IN  shorter \cup {Append(t, c) : t \in {u \in shorter : Len(u) = n - 1}, c \in Alphabet}

KeySlugs == {<<"a">>, <<"a", ".", "B">>}

InitKey ==
    /\ DRY_RUN = FALSE
    /\ db = [i \in 1..NumOrgs |-> WithId(Catalogue[i], i)]
    /\ logos = <<>>
    /\ bucket = <<>>
    /\ tool = "none"
    /\ args = [entry |-> "none", test_org |-> None, org_slugs |-> {}, dry_run |-> None]
    /\ mode = "default"
    /\ dry_run = FALSE
    /\ force = FALSE
    /\ pc = "idle"
    /\ orgs = <<>>
    /\ idx = 0
    /\ success_count = 0
    /\ skip_count = 0
    /\ fail_count = 0
    /\ trace = <<>>
    /\ tally = <<>>
    /\ runs = 0
    /\ prev = NoRun
    /\ kin \in {[image_slug |-> sl, url |-> Http \o t] : sl \in KeySlugs, t \in SeqsUpTo(MaxTail)}
    /\ kout = [done |-> FALSE, r2_key |-> <<>>, filename |-> <<>>]

\* both tools derive the file name for one image_slug and one source URL:
\* generate_r2_key (publish) and lines 106-107 of download_logos
DeriveKey ==
    /\ ~kout.done
    /\ kout' = [done |-> TRUE,
                r2_key |-> generate_r2_key(kin.image_slug, kin.url),
                filename |-> kin.image_slug \o get_extension_from_url(kin.url)]
    /\ UNCHANGED kin
    /\ UNCHANGED <<DRY_RUN, db, logos, bucket, runVars, counters, pc, trace>>

NextKey == DeriveKey

SpecKey == InitKey /\ [][NextKey]_vars

\* ================================================================ claims
\* the log entries of record i of the running tool
Events(i) == {trace[k].ev : k \in {j \in 1..Len(trace) : trace[j].i = i}}

StoreEvents == {"uploaded", "upload_failed"}
DbEvents == {"db_updated", "db_nomatch", "db_failed"}
DownloadEvents == {"downloaded", "download_failed"}
SkipEvents == {"skip_no_url", "skip_no_slug"}
TerminalEvents ==
    SkipEvents \cup DbEvents \cup
    {"unexpected_error", "download_failed", "dry_run", "upload_failed", "skip_exists"}

\* the documents of the collection with the canonical_id of a selected one
Stored(org) == {db[j] : j \in {n \in 1..Len(db) : db[n].canonical_id = org.canonical_id}}

C1_DryRunState ==
    (tool = "publish" /\ dry_run) =>
        /\ pc \notin {"upload", "update"}
        /\ \A k \in 1..Len(trace) : trace[k].ev \notin StoreEvents \cup DbEvents
        /\ \A i \in 1..Len(tally) :
              /\ "processing" \in Events(i) => Events(i) \cap DownloadEvents # {}
              /\ "downloaded" \in Events(i) =>
                    /\ "dry_run" \in Events(i)
                    /\ tally[i] = "success"
                    /\ key_of(orgs[i]) \in DOMAIN logos

C1_DryRunStep ==
    (tool = "publish" /\ dry_run) => (bucket' = bucket /\ db' = db)

SecondDefaultRun == tool = "publish" /\ mode = "default" /\ prev.tool = "publish"

\* C2 as stated: the second of two default-mode runs selects no record.
C2_SecondRunSelectsNothing == SecondDefaultRun => Len(orgs) = 0

\* C2, amended: the second run selects only records that the first run
\* selected and did not update; every record the first run updated carries
\* a non-empty logo_r2_url and is not selected again, so the second run
\* selects none when the first updated all it selected.
C2_SecondRunSkipsUpdated ==
    SecondDefaultRun =>
        /\ \A i \in 1..Len(orgs) :
              /\ orgs[i].canonical_id \notin prev.updated
              /\ \E j \in 1..Len(prev.selected) : prev.selected[j] = orgs[i].canonical_id
        /\ \A j \in 1..Len(db) :
              db[j].canonical_id \in prev.updated =>
                  db[j].logo_r2_url.kind = "str" /\ db[j].logo_r2_url.val # <<>>
        /\ (prev.updated = {prev.selected[j] : j \in 1..Len(prev.selected)}) => Len(orgs) = 0

\* the first run updated every record it selected and the second selects none
C2_Witness ==
    /\ SecondDefaultRun /\ pc = "done"
    /\ Len(prev.selected) >= 1
    /\ prev.updated = {prev.selected[j] : j \in 1..Len(prev.selected)}
    /\ Len(orgs) = 0

NonEmpty(v) == v.kind \notin {"absent", "null"} /\ v # Str(<<>>)

Eligible(doc) ==
    /\ NonEmpty(doc.image_slug)
    /\ NonEmpty(doc.image_url) \/ NonEmpty(doc.logoUrl)
    /\ ~NonEmpty(doc.logo_r2_url)

\* C4: the default-mode selection of the publish tool is exactly the
\* eligible records: image_slug non-empty, image_url or logoUrl non-empty,
\* logo_r2_url absent, null or empty.
C4_DefaultSelectsEligible ==
    (tool = "publish" /\ mode = "default") =>
        /\ \A i \in 1..Len(orgs) : Eligible(orgs[i])
        /\ trace = <<>> =>
              \A j \in 1..Len(db) :
                  Eligible(db[j]) => \E i \in 1..Len(orgs) : orgs[i] = db[j]

\* ---------------------------------------------------------------- C5
\* C5: in the publish tool a record skipped for a missing source URL or a
\* missing image_slug is tallied as skipped and not as a failure.
C5_SkipIsNotFailure ==
    tool = "publish" =>
        \A i \in 1..Len(tally) :
            Events(i) \cap SkipEvents # {} => tally[i] = "skip"

\* ---------------------------------------------------------------- C6
\* how many log entries of record i are of the kinds in evs
Count(i, evs) == Cardinality({k \in 1..Len(trace) : trace[k].i = i /\ trace[k].ev \in evs})

\* C6: whatever the records' outcomes, the publish tool processes every
\* selected record once and in selection order, attempts no step of a
\* record twice, goes on after a failed record, and ends with counters that
\* sum to the number of selected records.
C6_FailureIsolation ==
    tool = "publish" =>
        /\ success_count + fail_count + skip_count = Len(tally)
        /\ success_count = Cardinality({i \in 1..Len(tally) : tally[i] = "success"})
        /\ pc \in {"check", "download", "upload", "update"} => idx = Len(tally) + 1
        /\ pc = "done" => Len(tally) = Len(orgs)
        /\ \A k \in 1..Len(trace) : trace[k].i \in 1..Len(orgs)
        /\ \A k \in 1..(Len(trace) - 1) : trace[k].i <= trace[k + 1].i
        /\ \A i \in 1..Len(tally) :
              /\ Count(i, TerminalEvents) = 1
              /\ Count(i, {"processing"} \cup SkipEvents \cup {"unexpected_error"}) = 1
              /\ Count(i, DownloadEvents) <= 1
              /\ Count(i, StoreEvents) <= 1
              /\ Count(i, DbEvents) <= 1

\* a run in which the first record raised and the second was still published
C6_Witness ==
    /\ tool = "publish" /\ pc = "done" /\ Len(orgs) >= 2
    /\ "unexpected_error" \in Events(1)
    /\ tally[1] = "fail"
    /\ "db_updated" \in Events(2)
    /\ tally[2] = "success"

\* ---------------------------------------------------------------- C7
\* C7: with DRY_RUN set in the environment, a command-line start without
\* --dry-run is a dry run: nothing is uploaded and nothing is written.
C7_EnvDryRunHonoured ==
    (tool = "publish" /\ args.entry = "cli" /\ args.dry_run = PyFalse /\ DRY_RUN) =>
        /\ dry_run
        /\ \A k \in 1..Len(trace) : trace[k].ev \notin StoreEvents \cup DbEvents

\* ---------------------------------------------------------------- C8
\* The claim's own reading of a URL  scheme://host<path>[?query][#fragment]:
\* the URL up to its first ? or #
NoQueryNoFragment(url) ==
    CHOOSE p \in {SubSeq(url, 1, n) : n \in 0..Len(url)} :
        /\ \A k \in 1..Len(p) : p[k] \notin {"?", "#"}
        /\ Len(p) < Len(url) => url[Len(p) + 1] \in {"?", "#"}

\* the path: from the first "/" after "http://" on; the ;parameters of the
\* segment after the last "/" are no part of it
SpecPath(url) ==
    LET u == NoQueryNoFragment(url)
        slashes == {k \in 8..Len(u) : u[k] = "/"}
    IN  IF slashes = {} THEN <<>>
        ELSE LET first == CHOOSE k \in slashes : \A m \in slashes : k <= m
                 last == CHOOSE k \in slashes : \A m \in slashes : m <= k
                 semis == {k \in last..Len(u) : u[k] = ";"}
                 end == IF semis = {} THEN Len(u)
                        ELSE (CHOOSE k \in semis : \A m \in semis : k <= m) - 1
             IN  SubSeq(u, first, end)

\* the file name: the last segment of the path that is neither empty nor "."
SpecFileName(url) ==
    LET p == SpecPath(url)
        segs == {ab \in (1..Len(p)) \X (1..Len(p)) :
                    /\ ab[1] <= ab[2]
                    /\ \A k \in ab[1]..ab[2] : p[k] # "/"
                    /\ ab[1] = 1 \/ p[ab[1] - 1] = "/"
                    /\ ab[2] = Len(p) \/ p[ab[2] + 1] = "/"
                    /\ SubSeq(p, ab[1], ab[2]) # <<".">>}
    IN  IF segs = {} THEN <<>>
        ELSE LET ab == CHOOSE x \in segs : \A y \in segs : y[1] <= x[1]
             IN  SubSeq(p, ab[1], ab[2])

\* name = stem "." ext with stem and ext non-empty and no "." in ext
HasExtension(name) ==
    \E k \in 2..(Len(name) - 1) :
        name[k] = "." /\ \A m \in (k + 1)..Len(name) : name[m] # "."

SpecExtension(name) ==
    LET k == CHOOSE n \in 2..(Len(name) - 1) :
                 name[n] = "." /\ \A m \in (n + 1)..Len(name) : name[m] # "."
    IN  [i \in 1..(Len(name) - k + 1) |-> LowerChar(name[k + i - 1])]

\* C8: the storage key is image_slug followed by the lower-cased extension
\* of the file name in the URL's path (query and fragment ignored), by
\* ".png" when that name has no extension; the download-only tool's file
\* name is the same.
C8_DeriveKey ==
    kout.done =>
        /\ kout.r2_key =
              kin.image_slug \o
              (IF HasExtension(SpecFileName(kin.url))
               THEN SpecExtension(SpecFileName(kin.url))
               ELSE <<".", "p", "n", "g">>)
        /\ kout.filename = kout.r2_key

\* an upper-case extension before a query string is folded to lower case
C8_Witness ==
    /\ kout.done
    /\ kin.url = Http \o <<"/", "a", ".", "P", "?">>
    /\ kout.r2_key = kin.image_slug \o <<".", "p">>

\* ---------------------------------------------------------------- C9
\* C9: in the download-only tool a record whose file exists, without
\* --force, is left alone and counted under "Skipped (already exists)";
\* "Downloaded" counts only the records whose download ran and succeeded.
C9_ExistingFileCountedSkipped ==
    tool = "download" =>
        /\ \A i \in 1..Len(tally) :
              "skip_exists" \in Events(i) =>
                  Events(i) \cap DownloadEvents = {} /\ tally[i] = "skip"
        /\ success_count = Cardinality({i \in 1..Len(tally) : "downloaded" \in Events(i)})

\* --------------------------------------------------------------- C10
\* C10: in the publish tool a record's upload is attempted only after its
\* field check passed and its download succeeded, its database update only
\* after its upload succeeded, and the log turns to the next record only
\* after the current one reached a terminal entry.
C10_StepOrder ==
    tool = "publish" =>
        /\ \A k \in 1..Len(trace) :
              /\ trace[k].ev \in StoreEvents =>
                    /\ \E j \in 1..(k - 1) : trace[j] = [i |-> trace[k].i, ev |-> "processing"]
                    /\ \E j \in 1..(k - 1) : trace[j] = [i |-> trace[k].i, ev |-> "downloaded"]
              /\ trace[k].ev \in DbEvents =>
                    \E j \in 1..(k - 1) : trace[j] = [i |-> trace[k].i, ev |-> "uploaded"]
              /\ trace[k].ev \in DownloadEvents =>
                    \E j \in 1..(k - 1) : trace[j] = [i |-> trace[k].i, ev |-> "processing"]
        /\ \A k \in 1..(Len(trace) - 1) :
              \/ trace[k + 1].i = trace[k].i /\ trace[k].ev \notin TerminalEvents
              \/ trace[k + 1].i = trace[k].i + 1 /\ trace[k].ev \in TerminalEvents
        /\ pc = "upload" => "downloaded" \in Events(idx)
        /\ pc = "update" => "uploaded" \in Events(idx)
        /\ pc = "download" => "processing" \in Events(idx)

\* the second record is begun after the first was uploaded and updated
C10_Witness ==
    /\ tool = "publish"
    /\ \E k \in 1..(Len(trace) - 1) :
          /\ trace[k] = [i |-> 1, ev |-> "db_updated"]
          /\ trace[k + 1] = [i |-> 2, ev |-> "processing"]
    /\ pc = "upload"

\* --------------------------------------------------------------- C11
Docs(d) == {d[j] : j \in 1..Len(d)}

\* doc after is doc before with the three output fields, and only them, set
SetsOutputFields(before, after, r2_key) ==
    /\ after.logo_local_filename = Str(r2_key)
    /\ after.logo_r2_url.kind = "str"
    /\ after.logo_uploaded_at.kind = "date"
    /\ after = [before EXCEPT !.logo_local_filename = after.logo_local_filename,
                              !.logo_r2_url = after.logo_r2_url,
                              !.logo_uploaded_at = after.logo_uploaded_at]

\* one step: a document either stays as it is, or it is the record being
\* processed, uploaded, at its update step, and gets the three fields at
\* once (or another client removes it there); no document appears
C11_Step ==
    /\ \A d \in Docs(db) :
          \/ d \in Docs(db')
          \/ /\ pc = "update"
             /\ tool = "publish"
             /\ d.canonical_id = Cur.canonical_id
             /\ "uploaded" \in Events(idx)
             /\ \A e \in Docs(db') :
                   e.canonical_id = d.canonical_id => SetsOutputFields(d, e, key_of(Cur))
    /\ \A e \in Docs(db') : \E d \in Docs(db) : d.canonical_id = e.canonical_id
    /\ Len(db') <= Len(db)

\* a record of this run that was skipped, or whose download or upload
\* failed, or that raised, is in the collection as it was read
C11_State ==
    tool = "publish" =>
        \A i \in 1..Len(tally) :
            Events(i) \cap (SkipEvents \cup {"download_failed", "upload_failed",
                                            "unexpected_error", "dry_run"}) # {} =>
                \A d \in Stored(orgs[i]) : d = orgs[i]

\* C11: across a run of the publish tool the only fields written are
\* logo_local_filename, logo_r2_url and logo_uploaded_at, together, in one
\* update of the record being processed and only after its upload
\* succeeded; a record that is skipped or fails its download or upload, and
\* every record not selected, stays as it was.
C11_WriteFrame == [] C11_State /\ [][C11_Step]_vars

\* the first record failed its download and is unchanged; the second was
\* uploaded and got the three fields
C11_Witness ==
    /\ tool = "publish" /\ pc = "done" /\ Len(orgs) = 2
    /\ "download_failed" \in Events(1)
    /\ \E d \in Stored(orgs[1]) : d = orgs[1]
    /\ "db_updated" \in Events(2)
    /\ \E d \in Stored(orgs[2]) :
          /\ d # orgs[2]
          /\ SetsOutputFields(orgs[2], d, key_of(orgs[2]))

\* --------------------------------------------------------------- C12
\* the bytes of a complete download of the record's source URL
OwnBytes(org) == [src |-> logo_url_of(org).val, whole |-> TRUE]

\* C12: after a run of the publish tool that is not a dry run, every record
\* counted as a success has logo_local_filename naming a store object whose
\* content is the bytes downloaded from that record's own source URL.
C12_SuccessHoldsOwnBytes ==
    (tool = "publish" /\ ~dry_run /\ pc = "done") =>
        \A i \in 1..Len(tally) :
            tally[i] = "success" =>
                \A d \in Stored(orgs[i]) :
                    /\ d.logo_local_filename.kind = "str"
                    /\ d.logo_local_filename.val \in DOMAIN bucket
                    /\ bucket[d.logo_local_filename.val].body = OwnBytes(orgs[i])

====
